---- MODULE Spec2Model ----
(***************************************************************************)
(* pymc4 sampler orchestration: the sampler classes of mcmc/samplers.py    *)
(* (construction, kwarg partitioning, compound-step assignment, sample),   *)
(* the SMC driver of inference/smc.py and the proposal factories of        *)
(* distributions/state_functions.py, as one state machine per session:     *)
(* a model is given, samplers are constructed over it and called.          *)
(***************************************************************************)
EXTENDS Integers, Sequences, FiniteSets, TLC

\* ------------------------------------------------------------------ bounds
\* Longest list of unobserved variables a model declares.
MaxVars == 3
\* Most keyword arguments passed to a sampler constructor.
MaxKwargs == 1
\* Largest num_samples, num_chains and (minus one) burn_in of a sample call.
MaxDraws == 2
\* Most (variable, sampler) pairs of an explicit sampler_methods mapping.
MaxMapped == 2
\* Highest rank of a tensor and largest size of one of its dimensions.
MaxDim == 2
\* Longest list of tensors handed to tile_init or to a proposal function.
MaxParts == 2

\* ------------------------------------------------------------- dictionaries
\* Python dicts are functions. An optional argument is None or Some(value).
None == [isNone |-> TRUE]
Some(x) == [isNone |-> FALSE, value |-> x]
EmptyDict == [k \in {} |-> 0]
Keys(d) == DOMAIN d
Restrict(d, S) == [k \in S |-> d[k]]
\* dict.update(other): other's entries win.
Update(d, other) == [k \in DOMAIN d \cup DOMAIN other |->
                        IF k \in DOMAIN other THEN other[k] ELSE d[k]]
\* for k, v in defaults.items(): d.setdefault(k, v): d's entries win.
SetDefaults(d, defaults) == [k \in DOMAIN d \cup DOMAIN defaults |->
                        IF k \in DOMAIN d THEN d[k] ELSE defaults[k]]

\* ------------------------------------------------------------------ tensors
\* A tensor is its elements in row-major order and its shape (the list of its
\* dimensions); a scalar has the shape <<>> and one element.
Tensor(v, sh) == [val |-> v, shape |-> sh]
RECURSIVE Product(_)
Product(sh) == IF sh = <<>> THEN 1 ELSE Head(sh) * Product(Tail(sh))
\* tf.expand_dims(t, 0), also written t[None, ...]: the same elements under a
\* new leading axis of length 1.
expand_dims(t) == [val |-> t.val, shape |-> <<1>> \o t.shape]
\* tf.tile(t, [n] + [1] * (t.ndim - 1)): the elements of t, n times over, the
\* leading dimension multiplied by n.
tile(t, n) ==
    [val |-> [j \in 1..(n * Len(t.val)) |-> t.val[((j - 1) % Len(t.val)) + 1]],
     shape |-> <<n * Head(t.shape)>> \o Tail(t.shape)]
\* Tile, repeating each element n times in place (what tf.repeat does) under
\* the same shape.
Tile_repeat_elements(t, n) ==
    [val |-> [j \in 1..(n * Len(t.val)) |-> t.val[((j - 1) \div n) + 1]],
     shape |-> <<n>> \o t.shape]
\* tf.tile(tf.expand_dims(t, 0), [n] + [1] * t.ndim): n copies of t along a
\* new leading axis.
Tile(t, n) == tile(expand_dims(t), n)

\* ------------------------------------------------------------------- models
\* The distribution of an unobserved variable, by the three attributes the
\* samplers read: continuous with gradient support; discrete with a default
\* proposal function; discrete without one.
Kinds == {"cont", "disc", "discNoFn"}
grad_support(kind) == kind = "cont"
is_discrete(kind) == kind # "cont"
default_new_state_part_callable(kind) == kind = "disc"

\* What is passed as `model` and is no pymc4.Model.
NotAModel == [isModel |-> FALSE]
ObservedData == Tensor(<<1, 2, 3>>, <<3>>)
\* A model: its unobserved variables in declaration order (variable i is named
\* i), and its observed variables with their data.
ModelObserved == {EmptyDict, [k \in {"y"} |-> ObservedData]}
Models == {[isModel |-> TRUE, vars |-> vs, observed |-> ob] :
              vs \in UNION {[1..n -> Kinds] : n \in 0..MaxVars}, ob \in ModelObserved}

\* initialize_state(model): the names of the discrete unobserved variables.
disc_names(m) == {i \in 1..Len(m.vars) : is_discrete(m.vars[i])}

\* ----------------------------------------------------------- sampler classes
SamplerClasses == {"HMC", "HMCSimple", "NUTS", "NUTSSimple", "RandomWalkM", "CompoundStep"}
\* grad, were _grad = True not inherited by HMCSimple and NUTSSimple.
grad_not_inherited(cls) == cls \in {"HMC", "NUTS"}
\* cls._grad
grad(cls) == cls \in {"HMC", "HMCSimple", "NUTS", "NUTSSimple"}
\* cls._adaptation is a class (TRUE) or None (FALSE)
has_adaptation(cls) == cls \in {"HMC", "HMCSimple", "NUTS", "NUTSSimple"}
\* cls.__name__ as _assign_default_methods compares it
class_name(cls) == cls

\* cls._default_kernel_kwargs
default_kernel_kwargs(cls) ==
    IF cls \in {"HMC", "HMCSimple"} THEN ("step_size" :> 1) @@ ("num_leapfrog_steps" :> 3)
    ELSE IF cls \in {"NUTS", "NUTSSimple"} THEN ("step_size" :> 1)
    ELSE EmptyDict
\* cls._default_adapter_kwargs
default_adapter_kwargs(cls) ==
    IF cls \in {"NUTS", "NUTSSimple"}
    THEN ("num_adaptation_steps" :> 100) @@ ("step_size_getter_fn" :> 0)
         @@ ("log_accept_prob_getter_fn" :> 0) @@ ("step_size_setter_fn" :> 0)
    ELSE EmptyDict
\* self._stat_names as the subclass constructor sets it
stat_names(cls) ==
    IF cls \in {"HMC", "HMCSimple"} THEN <<"mean_tree_accept">>
    ELSE IF cls \in {"NUTS", "NUTSSimple"}
         THEN <<"lp", "tree_size", "diverging", "energy", "mean_tree_accept">>
    ELSE IF cls = "RandomWalkM" THEN <<"mean_accept">>
    ELSE <<"compound_results">>

\* The parameters of _CompoundStepTF.__init__ after `self`: the log-probability
\* function, the three entries _assign_default_methods stores, and a name.
compound_kernel_keys == {"target_log_prob_fn", "make_kernel_fn", "kernel_kwargs", "li", "name"}
\* The parameter names inspect.signature finds, `self` dropped by the [1:].
\* set(list(signature(self._kernel.__init__).parameters.keys())[1:])
kernel_keys(cls) ==
    IF cls \in {"HMC", "HMCSimple"}
    THEN {"target_log_prob_fn", "step_size", "num_leapfrog_steps", "name"}
    ELSE IF cls \in {"NUTS", "NUTSSimple"}
    THEN {"target_log_prob_fn", "step_size", "parallel_iterations", "name"}
    ELSE IF cls = "RandomWalkM" THEN {"target_log_prob_fn", "new_state_fn", "name"}
    ELSE compound_kernel_keys
\* set(list(signature(self._adaptation.__init__).parameters.keys())[1:]); with
\* _adaptation None this is the signature of None.__init__,
\* (self, /, *args, **kwargs), of which the [1:] leaves "args" and "kwargs".
adaptation_keys(cls) ==
    IF has_adaptation(cls)
    THEN {"inner_kernel", "num_adaptation_steps", "step_size_setter_fn",
          "step_size_getter_fn", "log_accept_prob_getter_fn", "name"}
    ELSE {"args", "kwargs"}
\* set(list(signature(mcmc.sample_chain).parameters.keys()))
chain_keys == {"num_results", "current_state", "previous_kernel_results", "kernel",
               "num_burnin_steps", "num_steps_between_results", "trace_fn",
               "parallel_iterations", "name"}

\* The keyword names a caller passes to a constructor, and the value passed
\* under each.
KwargNames == {"step_size", "num_adaptation_steps", "num_steps_between_results",
               "num_burnin_steps", "target_log_prob_fn", "parallel_iterations",
               "name", "kwargs", "bogus"}
UserValue(k) == IF k = "num_steps_between_results" THEN 1 ELSE 77
KwargSets == {S \in SUBSET KwargNames : Cardinality(S) <= MaxKwargs}
KwargDict(S) == [k \in S |-> UserValue(k)]

\* ------------------------------------------------------------------- errors
TypeErrorNotModel == "TypeError: not a pymc4.Model"
ValueErrorDiscrete == "ValueError: discrete distributions with gradient-based sampler"
ValueErrorAmbiguity == "ValueError: Ambiguity in setting kwargs"
TypeErrorRaiseStr == "TypeError: exceptions must derive from BaseException"
ValueErrorNoGradient == "ValueError: the variable does not support gradient"
NotImplementedError == "NotImplementedError"
IndexError == "IndexError: list index out of range"
ValueErrorStateAndObserved == "ValueError: both state and observed arguments"
ValueErrorNoUnobserved == "ValueError: the model has no unobserved values"
ValueErrorNoLikelihoodOrPrior == "ValueError: the model should contain both likelihood and prior"
TypeErrorDuplicateKeyword == "TypeError: got multiple values for keyword argument"
ValueErrorScale == "ValueError: scale must broadcast with state_parts"
NoError == "no error"
IsValueError(e) == e \in {ValueErrorDiscrete, ValueErrorAmbiguity, ValueErrorNoGradient,
                          ValueErrorStateAndObserved, ValueErrorNoUnobserved,
                          ValueErrorNoLikelihoodOrPrior, ValueErrorScale}

\* ------------------------------------------------------- proposal functions
\* categorical_uniform_fn, bernoulli_fn, gaussian_round_fn and poisson_fn of
\* distributions/state_functions.py.
Factories == {"categorical_uniform_fn", "bernoulli_fn", "gaussian_round_fn", "poisson_fn"}
\* The `scale` argument of a factory: a scalar, or a Python list or tuple of
\* scale parts, of which the functions read the length.
ScaleArgs ==
    {[kind |-> "scalar", len |-> 1]}
    \cup {[kind |-> k, len |-> n] : k \in {"list", "tuple"}, n \in 1..(MaxParts + 1)}
\* mcmc_util.is_list_like(scale)
is_list_like(scale) == scale.kind \in {"list", "tuple"}
Seeds == {0, 1}

NoProposal == [factory |-> "None"]
\* factory(scale=scale): the closure _fn. `scale` is the object its free
\* variable refers to (the caller's own list when a list was passed), `given`
\* is that object as it was when the factory was called.
proposal_fn(factory, scale) == [factory |-> factory, scale |-> scale, given |-> scale]

\* _fn(state_parts, seed) with n = len(state_parts), the same in all four
\* functions up to the draw. `scales` is the object `scale` itself when it is
\* list-like and a new one-element list otherwise; `scales *= n` on a
\* one-element list extends that list object in place, and on a tuple binds
\* a new tuple to the local name. The result is the error raised, the number
\* of proposed parts returned (zip stops at the shorter of the two lists) and
\* the closure after the call.
fn(p, n) ==
    LET scales == IF is_list_like(p.scale) THEN p.scale ELSE [kind |-> "list", len |-> 1]
        scales2 == IF scales.len = 1 THEN [scales EXCEPT !.len = n] ELSE scales
        after == IF p.scale.kind = "list" THEN [p EXCEPT !.scale = scales2] ELSE p
    IN IF n # scales2.len
       THEN [err |-> ValueErrorScale, returned |-> 0, proposal |-> after]
       ELSE [err |-> NoError, returned |-> n, proposal |-> after]

\* ------------------------------------------------------------- construction
NoSampler == [cls |-> "None"]

\* _BaseSampler._assign_arguments
assign_arguments(cls, kwargs) ==
    [adaptation_kwargs |-> Restrict(kwargs, adaptation_keys(cls) \cap Keys(kwargs)),
     kernel_kwargs |-> Restrict(kwargs, kernel_keys(cls) \cap Keys(kwargs)),
     chain_kwargs |-> Restrict(kwargs, chain_keys \cap Keys(kwargs))]

\* ambiguous, without its third test (kernel against chain runner).
ambiguous_two_tests(p) ==
    \/ Keys(p.adaptation_kwargs) \cap Keys(p.kernel_kwargs) # {}
    \/ Keys(p.adaptation_kwargs) \cap Keys(p.chain_kwargs) # {}
\* The condition of _check_arguments' raise.
ambiguous(p) ==
    \/ Keys(p.adaptation_kwargs) \cap Keys(p.kernel_kwargs) # {}
    \/ Keys(p.adaptation_kwargs) \cap Keys(p.chain_kwargs) # {}
    \/ Keys(p.kernel_kwargs) \cap Keys(p.chain_kwargs) # {}

\* _check_kwargs: for each (method, kwargs) pair whose method is not None, the
\* raise fires when more of the kwargs are accepted than the method has
\* parameters. Every method is callable, so class_keys is its signature.
check_kwargs_raises(cls, p) ==
    \/ has_adaptation(cls)
       /\ Cardinality(adaptation_keys(cls) \cap Keys(p.adaptation_kwargs))
            > Cardinality(adaptation_keys(cls))
    \/ Cardinality(kernel_keys(cls) \cap Keys(p.kernel_kwargs)) > Cardinality(kernel_keys(cls))
    \/ Cardinality(chain_keys \cap Keys(p.chain_kwargs)) > Cardinality(chain_keys)

\* bound_kwargs, with dict.update(defaults) for the setdefault loops.
bound_kwargs_update(cls, p) ==
    [adaptation_kwargs |-> Update(p.adaptation_kwargs, default_adapter_kwargs(cls)),
     kernel_kwargs |-> Update(p.kernel_kwargs, default_kernel_kwargs(cls)),
     chain_kwargs |-> p.chain_kwargs]
\* _BaseSampler._bound_kwargs
bound_kwargs(cls, p) ==
    [adaptation_kwargs |-> SetDefaults(p.adaptation_kwargs, default_adapter_kwargs(cls)),
     kernel_kwargs |-> SetDefaults(p.kernel_kwargs, default_kernel_kwargs(cls)),
     chain_kwargs |-> p.chain_kwargs]

\* cls(model, **kwargs): _BaseSampler.__init__ and the subclass constructor.
\* The result is the error raised (or NoError), the steps executed in order,
\* and the instance (NoSampler when the constructor raised).
sampler_init(cls, m, kwargs) ==
    IF ~m.isModel
    THEN [err |-> TypeErrorNotModel, events |-> <<"isinstance">>, sampler |-> NoSampler]
    ELSE IF grad(cls) /\ disc_names(m) # {}
    THEN [err |-> ValueErrorDiscrete, events |-> <<"isinstance", "initialize_state">>,
          sampler |-> NoSampler]
    ELSE LET p == assign_arguments(cls, kwargs) IN
         IF ambiguous(p)
         THEN [err |-> ValueErrorAmbiguity,
               events |-> <<"isinstance", "initialize_state", "_assign_arguments",
                            "_check_arguments">>,
               sampler |-> NoSampler]
         ELSE IF check_kwargs_raises(cls, p)
         THEN [err |-> TypeErrorRaiseStr,
               events |-> <<"isinstance", "initialize_state", "_assign_arguments",
                            "_check_arguments", "_check_kwargs">>,
               sampler |-> NoSampler]
         ELSE LET b == bound_kwargs(cls, p) IN
              [err |-> NoError,
               events |-> <<"isinstance", "initialize_state", "_assign_arguments",
                            "_check_arguments", "_check_kwargs", "_bound_kwargs">>,
               sampler |-> [cls |-> cls,
                            adaptation_kwargs |-> b.adaptation_kwargs,
                            kernel_kwargs |-> b.kernel_kwargs,
                            chain_kwargs |-> b.chain_kwargs,
                            stat_names |-> stat_names(cls)]]

\* ------------------------------------------------- compound-step assignment
\* The sampler classes an explicit mapping names: one of each combination of
\* _grad and of the two names the loop tests for.
MethodClasses == {"NUTS", "RandomWalkM", "HMC", "CompoundStep"}
\* sampler_methods after _convert_sampler_methods: None, or a dict from
\* variable names to sampler classes.
SamplerMethods(m) ==
    {None} \cup {Some(f) : f \in UNION {[D -> MethodClasses] :
                         D \in {D \in SUBSET (1..Len(m.vars)) : Cardinality(D) <= MaxMapped}}}
\* `sampler_methods and unscoped_var in sampler_methods`
explicitly_mapped(methods, i) ==
    /\ methods # None
    /\ DOMAIN methods.value # {}
    /\ i \in DOMAIN methods.value

\* The locals of _assign_default_methods before its loop. `assigned` lists,
\* for each variable the loop has passed, the sampler it was counted under.
AssignStart ==
    [err |-> NoError, make_kernel_fn |-> <<>>, part_kernel_kwargs |-> <<>>,
     rwm_len |-> 0, nuts_len |-> 0, assigned |-> <<>>]

\* explicit_step, without the gradient-support test.
explicit_step_unchecked(a, i, kind, smp) ==
    LET pkk == Append(a.part_kernel_kwargs, EmptyDict) IN
    IF default_new_state_part_callable(kind) /\ i > Len(pkk)
    THEN [a EXCEPT !.err = IndexError, !.part_kernel_kwargs = pkk]
    ELSE
    LET pkk2 == IF default_new_state_part_callable(kind)
                THEN [pkk EXCEPT ![i] = Update(@, ("new_state_fn" :> kind))]
                ELSE pkk
        nuts == IF class_name(smp) = "NUTS" THEN a.nuts_len + 1 ELSE a.nuts_len
        b == [a EXCEPT !.part_kernel_kwargs = pkk2,
                       !.make_kernel_fn = Append(@, smp),
                       !.nuts_len = nuts] IN
    IF class_name(smp) = "RandomWalkM"
    THEN [b EXCEPT !.rwm_len = @ + 1, !.assigned = Append(@, smp)]
    ELSE [b EXCEPT !.err = NotImplementedError]

\* The branch of the loop body for a variable named in sampler_methods; i is
\* the variable's position counted from 1, so part_kernel_kwargs[i] of the
\* code (counted from 0) is entry i here.
explicit_step(a, i, kind, smp) ==
    LET pkk == Append(a.part_kernel_kwargs, EmptyDict) IN
    IF default_new_state_part_callable(kind) /\ i > Len(pkk)
    THEN [a EXCEPT !.err = IndexError, !.part_kernel_kwargs = pkk]
    ELSE
    LET pkk2 == IF default_new_state_part_callable(kind)
                THEN [pkk EXCEPT ![i] = Update(@, ("new_state_fn" :> kind))]
                ELSE pkk IN
    IF ~grad_support(kind) /\ grad(smp)
    THEN [a EXCEPT !.err = ValueErrorNoGradient, !.part_kernel_kwargs = pkk2]
    ELSE
    LET nuts == IF class_name(smp) = "NUTS" THEN a.nuts_len + 1 ELSE a.nuts_len
        b == [a EXCEPT !.part_kernel_kwargs = pkk2,
                       !.make_kernel_fn = Append(@, smp),
                       !.nuts_len = nuts] IN
    IF class_name(smp) = "RandomWalkM"
    THEN [b EXCEPT !.rwm_len = @ + 1, !.assigned = Append(@, smp)]
    ELSE [b EXCEPT !.err = NotImplementedError]

\* default_step, with the second branch testing nuts_len, as the first does.
default_step_same_counter(a, kind) ==
    IF grad_support(kind)
    THEN [a EXCEPT !.make_kernel_fn = IF a.nuts_len = 0 THEN Append(@, "NUTS") ELSE @,
                   !.part_kernel_kwargs = IF a.nuts_len = 0 THEN Append(@, EmptyDict) ELSE @,
                   !.nuts_len = @ + 1,
                   !.assigned = Append(@, "NUTS")]
    ELSE [a EXCEPT !.make_kernel_fn = IF a.nuts_len = 0 THEN Append(@, "RandomWalkM") ELSE @,
                   !.part_kernel_kwargs = IF a.nuts_len = 0 THEN Append(@, EmptyDict) ELSE @,
                   !.rwm_len = @ + 1,
                   !.assigned = Append(@, "RandomWalkM")]

\* The two default branches of the loop body.
default_step(a, kind) ==
    IF grad_support(kind)
    THEN [a EXCEPT !.make_kernel_fn = IF a.nuts_len = 0 THEN Append(@, "NUTS") ELSE @,
                   !.part_kernel_kwargs = IF a.nuts_len = 0 THEN Append(@, EmptyDict) ELSE @,
                   !.nuts_len = @ + 1,
                   !.assigned = Append(@, "NUTS")]
    ELSE [a EXCEPT !.make_kernel_fn = IF a.rwm_len = 0 THEN Append(@, "RandomWalkM") ELSE @,
                   !.part_kernel_kwargs = IF a.rwm_len = 0 THEN Append(@, EmptyDict) ELSE @,
                   !.rwm_len = @ + 1,
                   !.assigned = Append(@, "RandomWalkM")]

\* The loop over the unobserved variables from position i on; it stops at the
\* first raise.
RECURSIVE assign_loop(_, _, _, _)
assign_loop(a, i, vs, methods) ==
    IF a.err # NoError \/ i > Len(vs) THEN a
    ELSE assign_loop(IF explicitly_mapped(methods, i)
                     THEN explicit_step(a, i, vs[i], methods.value[i])
                     ELSE default_step(a, vs[i]),
                     i + 1, vs, methods)

\* kkw = [rwm_len, nuts_len]; kkw = [i for i in kkw if i != 0]
li_of(a) == SelectSeq(<<a.rwm_len, a.nuts_len>>, LAMBDA n : n # 0)

\* CompoundStep._assign_default_methods: the loop's locals at its end, and the
\* instance's kernel_kwargs, written only when the loop raised nothing.
assign_default_methods(smp, m, methods) ==
    LET a == assign_loop(AssignStart, 1, m.vars, methods) IN
    [locals |-> a,
     sampler |-> IF a.err # NoError THEN smp
                 ELSE [smp EXCEPT !.kernel_kwargs =
                          Update(@, ("make_kernel_fn" :> a.make_kernel_fn)
                                    @@ ("kernel_kwargs" :> a.part_kernel_kwargs)
                                    @@ ("li" :> li_of(a)))]]

\* ------------------------------------------------- log-probability builder
\* both_given, testing `observed is None` instead.
both_given_wrong_test(state, observed) == state # None /\ observed = None
\* `state is not None and observed is not None`
both_given(state, observed) == state # None /\ observed # None

OverrideData == Tensor(<<4, 5, 6>>, <<3>>)
InitValue == Tensor(<<0>>, <<>>)
\* The `observed` argument of a call: None, or a dict of new data for the
\* model's observed variables.
declared_observed(m) == IF m.isModel THEN m.observed ELSE EmptyDict
ObservedArgs(m) == {None, Some([k \in DOMAIN declared_observed(m) |-> OverrideData])}
\* The `state` argument of a call: None, or a sampling state of the model.
StateArgs(m) == {None, Some([observed_values |-> declared_observed(m)])}

\* initialize_sampling_state(model, observed=observed, state=state): the
\* state's observed_values (the model's data with the overrides, or the given
\* state's) and its all_unobserved_values.
initialize_sampling_state(m, observed, state) ==
    [observed_values |-> IF state # None THEN state.value.observed_values
                         ELSE IF observed # None THEN Update(m.observed, observed.value)
                         ELSE m.observed,
     all_unobserved_values |-> [i \in 1..Len(m.vars) |-> InitValue]]

\* The manual-batching branch of build_logp_and_deterministic_functions with
\* num_chains given. obs is the state's own observed_values dict. With an
\* `observed` argument, obs.update(observed) and then every tiled tensor is
\* stored in the caller's dict; without one, `observed = obs` makes the two
\* names one dict, and the tiled tensors are stored in the state's dict.
\* The result is the content of the state's dict, of the caller's dict and
\* of the dict the logpfn closure reads, after the loop.
tile_observed(obs, observed, num_chains) ==
    IF observed # None
    THEN LET obs2 == Update(obs, observed.value)
             tiled == Update(observed.value, [k \in DOMAIN obs2 |-> Tile(obs2[k], num_chains)])
         IN [state_observed |-> obs2, caller_observed |-> Some(tiled),
             closure_observed |-> Some(tiled)]
    ELSE LET tiled == [k \in DOMAIN obs |-> Tile(obs[k], num_chains)]
         IN [state_observed |-> tiled, caller_observed |-> None,
             closure_observed |-> Some(tiled)]

\* build_logp_and_deterministic_functions: the error raised, the steps
\* executed, the initial values, and the three dicts as tile_observed
\* describes them (the state's dict is what the returned state holds).
build_logp_and_deterministic_functions(m, num_chains, observed, state, collect_reduced_log_prob) ==
    LET untouched == [state_observed |-> EmptyDict, caller_observed |-> observed,
                      closure_observed |-> observed] IN
    IF ~m.isModel
    THEN [err |-> TypeErrorNotModel, events |-> <<"isinstance">>, init |-> <<>>,
          dicts |-> untouched]
    ELSE IF both_given(state, observed)
    THEN [err |-> ValueErrorStateAndObserved, events |-> <<"isinstance", "state_observed_check">>,
          init |-> <<>>, dicts |-> untouched]
    ELSE LET st == initialize_sampling_state(m, observed, state) IN
         IF st.all_unobserved_values = <<>>
         THEN [err |-> ValueErrorNoUnobserved,
               events |-> <<"isinstance", "state_observed_check", "initialize_sampling_state">>,
               init |-> <<>>, dicts |-> untouched]
         ELSE IF collect_reduced_log_prob
         THEN [err |-> NoError,
               events |-> <<"isinstance", "state_observed_check", "initialize_sampling_state",
                            "logpfn", "deterministics_callback">>,
               init |-> st.all_unobserved_values,
               dicts |-> [untouched EXCEPT !.state_observed = st.observed_values]]
         ELSE [err |-> NoError,
               events |-> <<"isinstance", "state_observed_check", "initialize_sampling_state",
                            "tile_observed", "logpfn", "deterministics_callback">>,
               init |-> st.all_unobserved_values,
               dicts |-> IF num_chains # None
                         THEN tile_observed(st.observed_values, observed, num_chains.value)
                         ELSE [untouched EXCEPT !.state_observed = st.observed_values]]

\* tile_init(init, num_repeats)
tile_init(init, num_repeats) == [i \in DOMAIN init |-> Tile(init[i], num_repeats)]

\* The tensors of an initial state: one of every shape, its elements
\* 1, 2, ... in row-major order, and the lists of them.
Shapes == UNION {[1..r -> 1..MaxDim] : r \in 0..MaxDim}
Arange(sh) == Tensor([j \in 1..Product(sh) |-> j], sh)
InitLists == UNION {[1..n -> {Arange(sh) : sh \in Shapes}] : n \in 0..MaxParts}

\* ------------------------------------------------------------------- sample
\* The keyword arguments _run_chains itself passes to the kernel, to the
\* adaptation wrapper and to mcmc.sample_chain; the same name in the
\* instance's kwargs is a second value for that argument.
kernel_call_args == {"target_log_prob_fn"}
adaptation_call_args == {"inner_kernel"}
chain_call_args == {"num_results", "current_state", "kernel", "num_burnin_steps", "trace_fn"}
duplicate_keyword(smp) ==
    \/ Keys(smp.kernel_kwargs) \cap kernel_call_args # {}
    \/ has_adaptation(smp.cls) /\ Keys(smp.adaptation_kwargs) \cap adaptation_call_args # {}
    \/ Keys(smp.chain_kwargs) \cap chain_call_args # {}

\* num_steps_between_results as sample_chain receives it (its default is 0).
steps_between_results(smp) ==
    IF "num_steps_between_results" \in Keys(smp.chain_kwargs)
    THEN smp.chain_kwargs["num_steps_between_results"] ELSE 0

\* sample_chain, taking the first result after num_burnin_steps steps.
RECURSIVE sample_chain_early(_, _, _, _)
sample_chain_early(c, num_results, num_burnin_steps, between) ==
    IF Len(c.kept) >= num_results THEN c
    ELSE LET n == c.steps + (IF c.kept = <<>> THEN num_burnin_steps ELSE 1 + between)
         IN sample_chain_early([steps |-> n, kept |-> Append(c.kept, n)],
                               num_results, num_burnin_steps, between)

\* mcmc.sample_chain(num_results, num_burnin_steps=burn_in, ...): the kernel
\* steps the first result after 1 + num_burnin_steps steps and every later one
\* after 1 + num_steps_between_results more. c.steps counts the kernel steps
\* run, c.kept lists the step at which each returned result was taken.
RECURSIVE sample_chain(_, _, _, _)
sample_chain(c, num_results, num_burnin_steps, between) ==
    IF Len(c.kept) >= num_results THEN c
    ELSE LET n == c.steps + (IF c.kept = <<>> THEN 1 + num_burnin_steps ELSE 1 + between)
         IN sample_chain([steps |-> n, kept |-> Append(c.kept, n)],
                         num_results, num_burnin_steps, between)

\* The kernel steps of a run, from the one after `done` to step k: a
\* RandomWalkMetropolis kernel given a new_state_fn calls it at the start of
\* every step on the n current state parts, and a raise ends the run. (Under
\* tf.function the loop body is also run once while it is traced.)
RECURSIVE one_steps(_, _, _, _)
one_steps(p, n, k, done) ==
    IF p = NoProposal \/ done >= k THEN [err |-> NoError, done |-> done, proposal |-> p]
    ELSE LET r == fn(p, n) IN
         IF r.err # NoError THEN [err |-> r.err, done |-> done, proposal |-> r.proposal]
         ELSE one_steps(r.proposal, n, k, done + 1)

\* _BaseSampler._run_chains(init, burn_in) with self._num_samples set. The
\* calls raise when a keyword is passed twice; what else the kernel library
\* may reject (a required argument left out) is not decided here, so a call
\* that returns in the code returns here, and not always the other way round.
\* new_state_fn is the proposal function the kernel was given (NoProposal
\* when it uses its own); its closure after the run is part of the result,
\* and `entered` tells whether the kernel's first step began.
run_chains(smp, init, num_samples, burn_in, new_state_fn) ==
    IF duplicate_keyword(smp)
    THEN [err |-> TypeErrorDuplicateKeyword, steps |-> 0, results |-> <<>>,
          proposal |-> new_state_fn, entered |-> FALSE]
    ELSE LET c == sample_chain([steps |-> 0, kept |-> <<>>], num_samples, burn_in,
                               steps_between_results(smp))
             k == one_steps(IF "new_state_fn" \in Keys(smp.kernel_kwargs)
                            THEN new_state_fn ELSE NoProposal,
                            Len(init), c.steps, 0)
         IN IF k.err # NoError
            THEN [err |-> k.err, steps |-> k.done, results |-> <<>>,
                  proposal |-> k.proposal, entered |-> TRUE]
            ELSE [err |-> NoError, steps |-> c.steps,
                  results |-> [i \in DOMAIN init |->
                                 [kept |-> c.kept, shape |-> <<Len(c.kept)>> \o init[i].shape]],
                  proposal |-> IF k.proposal = NoProposal THEN new_state_fn ELSE k.proposal,
                  entered |-> TRUE]

NoTrace == [steps |-> 0, posterior |-> <<>>, observed_data |-> EmptyDict]

\* _BaseSampler.sample: the error raised, the steps executed, the dicts as
\* build_logp_and_deterministic_functions leaves them, and the trace handed to
\* trace_to_arviz (posterior per variable, observed_data), with the number of
\* kernel steps run, and the closure of the proposal function after the call.
sample(smp, m, num_samples, num_chains, burn_in, observed, state, use_auto_batching, new_state_fn) ==
    IF both_given(state, observed)
    THEN [err |-> ValueErrorStateAndObserved, events |-> <<"state_observed_check">>,
          dicts |-> [state_observed |-> EmptyDict, caller_observed |-> observed,
                     closure_observed |-> observed],
          trace |-> NoTrace, proposal |-> new_state_fn]
    ELSE LET b == build_logp_and_deterministic_functions(
                      m, Some(num_chains), observed, state, use_auto_batching) IN
         IF b.err # NoError
         THEN [err |-> b.err, events |-> <<"state_observed_check">> \o b.events,
               dicts |-> b.dicts, trace |-> NoTrace, proposal |-> new_state_fn]
         ELSE LET init_state == tile_init(b.init, num_chains)
                  r == run_chains(smp, init_state, num_samples, burn_in, new_state_fn) IN
              IF r.err # NoError
              THEN [err |-> r.err,
                    events |-> <<"state_observed_check">> \o b.events
                               \o <<"tile_init", "_run_chains">>
                               \o (IF r.entered THEN <<"sample_chain", "one_step">> ELSE <<>>),
                    dicts |-> b.dicts,
                    trace |-> [NoTrace EXCEPT !.steps = r.steps],
                    proposal |-> r.proposal]
              ELSE [err |-> NoError,
                    events |-> <<"state_observed_check">> \o b.events
                               \o <<"tile_init", "_run_chains", "sample_chain", "trace_to_arviz">>,
                    dicts |-> b.dicts,
                    trace |-> [steps |-> r.steps, posterior |-> r.results,
                               observed_data |-> b.dicts.state_observed],
                    proposal |-> r.proposal]

\* ---------------------------------------------------------------------- SMC
\* initialize_sampling_state_smc: the number of likelihood terms (observed
\* variables) and of prior terms (unobserved variables) of the model.
initialize_sampling_state_smc(m, observed, state) ==
    LET st == initialize_sampling_state(m, observed, state) IN
    [state |-> st, lkh_n |-> Cardinality(DOMAIN st.observed_values),
     prior_n |-> Len(m.vars)]

\* lacks_likelihood_or_prior, with `and` for `or`.
lacks_likelihood_and_prior(lkh_n, prior_n) == lkh_n = 0 /\ prior_n = 0
\* `lkh_n == 0 or prior_n == 0`
lacks_likelihood_or_prior(lkh_n, prior_n) == lkh_n = 0 \/ prior_n = 0

\* _build_logp_smc
build_logp_smc(m, observed, state) ==
    IF ~m.isModel
    THEN [err |-> TypeErrorNotModel, events |-> <<"isinstance">>, init |-> <<>>]
    ELSE IF both_given(state, observed)
    THEN [err |-> ValueErrorStateAndObserved, events |-> <<"isinstance", "state_observed_check">>,
          init |-> <<>>]
    ELSE LET s == initialize_sampling_state_smc(m, observed, state) IN
         IF lacks_likelihood_or_prior(s.lkh_n, s.prior_n)
         THEN [err |-> ValueErrorNoLikelihoodOrPrior,
               events |-> <<"isinstance", "state_observed_check", "initialize_sampling_state_smc">>,
               init |-> <<>>]
         ELSE IF s.state.all_unobserved_values = <<>>
         THEN [err |-> ValueErrorNoUnobserved,
               events |-> <<"isinstance", "state_observed_check", "initialize_sampling_state_smc">>,
               init |-> <<>>]
         ELSE [err |-> NoError,
               events |-> <<"isinstance", "state_observed_check", "initialize_sampling_state_smc",
                            "logpfn_likelihood", "logpfn_prior">>,
               init |-> s.state.all_unobserved_values]

\* sample_smc: the error raised, the steps executed and the names of the
\* mapped samples.
sample_smc(m, num_chains, observed, state) ==
    LET b == build_logp_smc(m, observed, state) IN
    IF b.err # NoError
    THEN [err |-> b.err, events |-> b.events, mapped_samples |-> {}]
    ELSE [err |-> NoError,
          events |-> b.events \o <<"tile_init", "run_smc">>,
          mapped_samples |-> DOMAIN b.init]

\* -------------------------------------------------------------------- state
VARIABLES
    model,      \* the model of the session
    sampler,    \* the sampler instance, NoSampler before construction
    call,       \* the last call made: its operation and arguments
    err,        \* the error the last call raised, NoError when it returned
    events,     \* the steps the last call executed, in order
    result,     \* what the last call returned
    proposal    \* the proposal function of the session, NoProposal before a
                \* factory is called

vars == <<model, sampler, call, err, events, result, proposal>>

NoResult == [kind |-> "None"]

Init ==
    /\ model \in Models \cup {NotAModel}
    /\ sampler = NoSampler
    /\ call = [op |-> "start"]
    /\ err = NoError
    /\ events = <<>>
    /\ result = NoResult
    /\ proposal = NoProposal

\* new_state_fn = factory(scale=scale)
MakeProposal ==
    /\ call.op = "start"
    /\ \E factory \in Factories, scale \in ScaleArgs :
         /\ call' = [op |-> "factory", factory |-> factory, scale |-> scale]
         /\ proposal' = proposal_fn(factory, scale)
    /\ err' = NoError
    /\ events' = <<>>
    /\ result' = NoResult
    /\ UNCHANGED <<model, sampler>>

\* new_state_fn(state_parts, seed) with n state parts, called on its own
ProposalCall ==
    /\ call.op \in {"factory", "proposal_call"}
    /\ \E n \in 1..MaxParts, seed \in Seeds :
         LET r == fn(proposal, n) IN
         /\ call' = [op |-> "proposal_call", parts |-> n, seed |-> seed]
         /\ proposal' = r.proposal
         /\ err' = r.err
         /\ result' = [kind |-> "proposal", returned |-> r.returned]
    /\ events' = <<"_fn">>
    /\ UNCHANGED <<model, sampler>>

\* The constructor calls of a session: any class with any keyword arguments,
\* and, once a proposal function was made, RandomWalkM given that function.
ConstructInputs ==
    IF proposal = NoProposal
    THEN {[cls |-> cls, kwargs |-> KwargDict(S)] : cls \in SamplerClasses, S \in KwargSets}
    ELSE {[cls |-> "RandomWalkM", kwargs |-> KwargDict({"new_state_fn"})]}

\* sampler = cls(model, **kwargs)
Construct ==
    /\ call.op \in {"start", "factory"}
    /\ \E inp \in ConstructInputs :
         LET r == sampler_init(inp.cls, model, inp.kwargs) IN
         /\ call' = [op |-> "construct", cls |-> inp.cls, kwargs |-> inp.kwargs]
         /\ sampler' = r.sampler
         /\ err' = r.err
         /\ events' = r.events
    /\ result' = NoResult
    /\ UNCHANGED <<model, proposal>>

\* sampler._assign_default_methods(sampler_methods=methods)
AssignDefaultMethods ==
    /\ call.op = "construct"
    /\ err = NoError
    /\ sampler.cls = "CompoundStep"
    /\ \E methods \in SamplerMethods(model) :
         LET r == assign_default_methods(sampler, model, methods) IN
         /\ call' = [op |-> "assign", sampler_methods |-> methods]
         /\ sampler' = r.sampler
         /\ err' = r.locals.err
         /\ result' = [kind |-> "assign", locals |-> r.locals]
    /\ events' = <<"initialize_state", "loop">>
    /\ UNCHANGED <<model, proposal>>

\* sampler.sample(num_samples=.., num_chains=.., burn_in=.., observed=..,
\* state=.., use_auto_batching=..)
Sample ==
    /\ call.op \in {"construct", "assign"}
    /\ err = NoError
    /\ \E num_samples \in 1..MaxDraws, num_chains \in 1..MaxDraws, burn_in \in 0..(MaxDraws - 1),
          observed \in ObservedArgs(model), state \in StateArgs(model),
          use_auto_batching \in BOOLEAN :
         LET r == sample(sampler, model, num_samples, num_chains, burn_in, observed, state,
                         use_auto_batching, proposal) IN
         /\ call' = [op |-> "sample", num_samples |-> num_samples, num_chains |-> num_chains,
                     burn_in |-> burn_in, observed |-> observed, state |-> state,
                     use_auto_batching |-> use_auto_batching]
         /\ err' = r.err
         /\ events' = r.events
         /\ result' = [kind |-> "sample", dicts |-> r.dicts, trace |-> r.trace]
         /\ proposal' = r.proposal
    /\ UNCHANGED <<model, sampler>>

\* sample_smc(model, num_chains=.., state=.., observed=..)
SampleSmc ==
    /\ call.op = "start"
    /\ \E num_chains \in 1..MaxDraws, observed \in ObservedArgs(model),
          state \in StateArgs(model) :
         LET r == sample_smc(model, num_chains, observed, state) IN
         /\ call' = [op |-> "sample_smc", num_chains |-> num_chains, observed |-> observed,
                     state |-> state]
         /\ err' = r.err
         /\ events' = r.events
         /\ result' = [kind |-> "smc", mapped_samples |-> r.mapped_samples]
    /\ UNCHANGED <<model, sampler, proposal>>

\* tile_init(init, num_repeats), called on its own
TileInit ==
    /\ call.op = "start"
    /\ \E init \in InitLists, num_repeats \in 1..MaxDraws :
         /\ call' = [op |-> "tile_init", init |-> init, num_repeats |-> num_repeats]
         /\ result' = [kind |-> "tile_init", value |-> tile_init(init, num_repeats)]
    /\ err' = NoError
    /\ events' = <<"tile_init">>
    /\ UNCHANGED <<model, sampler, proposal>>

Next ==
    \/ Construct \/ AssignDefaultMethods \/ Sample \/ SampleSmc \/ TileInit
    \/ MakeProposal \/ ProposalCall

Spec == Init /\ [][Next]_vars

\* Construction alone, over every model.
SpecConstruct == Init /\ [][Construct]_vars

\* The compound step: a CompoundStep constructed without keyword arguments
\* over any model, and then _assign_default_methods.
InitCompound ==
    /\ model \in Models
    /\ sampler = sampler_init("CompoundStep", model, EmptyDict).sampler
    /\ call = [op |-> "construct", cls |-> "CompoundStep", kwargs |-> EmptyDict]
    /\ err = NoError
    /\ events = sampler_init("CompoundStep", model, EmptyDict).events
    /\ result = NoResult
    /\ proposal = NoProposal
SpecCompound == InitCompound /\ [][AssignDefaultMethods]_vars

\* Sampling: sample and sample_smc read the number of unobserved variables
\* and the observed data, not the kinds of the distributions, so the models
\* here are the ones whose variables are all continuous (every sampler class
\* can be constructed over them).
InitSample ==
    /\ Init
    /\ model.isModel => disc_names(model) = {}
SpecSample == InitSample /\ [][Construct \/ Sample \/ SampleSmc]_vars

\* The SMC driver alone, over every model.
SpecSmc == Init /\ [][SampleSmc]_vars

\* tile_init alone; it takes no model.
InitTile ==
    /\ Init
    /\ model = NotAModel
SpecTile == InitTile /\ [][TileInit]_vars

\* The proposal functions alone: a factory call, then calls of the function
\* it returned; they take no model either.
SpecProposal == InitTile /\ [][MakeProposal \/ ProposalCall]_vars

\* ------------------------------------------------------------------- claims
\* How many of the kernel, the adaptation wrapper and the chain runner accept
\* the keyword k.
accept_count(cls, k) ==
    (IF k \in kernel_keys(cls) THEN 1 ELSE 0)
    + (IF k \in adaptation_keys(cls) THEN 1 ELSE 0)
    + (IF k \in chain_keys THEN 1 ELSE 0)
has_discrete == model.isModel /\ disc_names(model) # {}

\* C1: constructing any sampler class over a model with a keyword argument
\* that two (or all three) of kernel, adaptation wrapper and chain runner
\* accept raises a ValueError in the constructor and yields no instance; it
\* is the ambiguity error unless the gradient/discrete check raised first.
C1_AmbiguousKwargRaises ==
    (/\ call.op = "construct"
     /\ model.isModel
     /\ \E k \in DOMAIN call.kwargs : accept_count(call.cls, k) >= 2)
    => /\ IsValueError(err)
       /\ sampler = NoSampler
       /\ ~(grad(call.cls) /\ has_discrete) => err = ValueErrorAmbiguity
C1_Witness ==
    /\ call.op = "construct"
    /\ call.cls = "RandomWalkM"
    /\ DOMAIN call.kwargs = {"name"}
    /\ err = ValueErrorAmbiguity

\* C2: over a model with a discrete unobserved variable, constructing a
\* gradient-based sampler raises the discrete-distribution error before
\* _assign_arguments runs, and constructing RandomWalkM or CompoundStep does
\* not raise that error.
C2_DiscreteRejectedByGradientSamplers ==
    (call.op = "construct" /\ model.isModel /\ has_discrete)
    => /\ call.cls \in {"HMC", "HMCSimple", "NUTS", "NUTSSimple"}
          => /\ err = ValueErrorDiscrete
             /\ sampler = NoSampler
             /\ \A j \in 1..Len(events) :
                  events[j] \notin {"_assign_arguments", "_check_arguments", "_bound_kwargs"}
       /\ call.cls \in {"RandomWalkM", "CompoundStep"} => err # ValueErrorDiscrete
C2_Witness ==
    /\ call.op = "construct"
    /\ call.cls = "NUTSSimple"
    /\ has_discrete
    /\ err = ValueErrorDiscrete

Ran(step) == \E j \in 1..Len(events) : events[j] = step

\* C3: a sample call, or a sample_smc call, given both `state` and `observed`
\* raises (the state/observed ValueError when the model is a Model); no
\* log-probability closure is built and no chain or SMC run starts.
C3_StateAndObservedRaises ==
    (/\ call.op \in {"sample", "sample_smc"}
     /\ call.state # None
     /\ call.observed # None)
    => /\ err # NoError
       /\ model.isModel => err = ValueErrorStateAndObserved
       /\ ~Ran("logpfn") /\ ~Ran("deterministics_callback")
       /\ ~Ran("logpfn_prior") /\ ~Ran("logpfn_likelihood")
       /\ ~Ran("_run_chains") /\ ~Ran("sample_chain") /\ ~Ran("run_smc")
       /\ call.op = "sample" => result.trace.steps = 0
C3_Witness ==
    /\ call.op = "sample"
    /\ call.state # None
    /\ call.observed # None
    /\ sampler.cls = "HMC"
    /\ err = ValueErrorStateAndObserved

RECURSIVE SumSeq(_)
SumSeq(q) == IF q = <<>> THEN 0 ELSE Head(q) + SumSeq(Tail(q))
InSeq(x, q) == \E j \in 1..Len(q) : q[j] = x
no_mapping(methods) == methods = None \/ DOMAIN methods.value = {}

\* C4: with no explicit mapping _assign_default_methods raises nothing, counts
\* every gradient-supporting variable under NUTS and every other variable
\* under RandomWalkM, stores a make_kernel_fn with a NUTS entry exactly when
\* some variable supports gradients and a RandomWalkM entry exactly when some
\* variable does not, and an `li` whose entries sum to the number of
\* unobserved variables.
C4_DefaultAssignment ==
    (call.op = "assign" /\ no_mapping(call.sampler_methods))
    => LET a == result.locals
           vs == model.vars IN
       /\ err = NoError
       /\ Len(a.assigned) = Len(vs)
       /\ \A i \in 1..Len(vs) :
            a.assigned[i] = IF grad_support(vs[i]) THEN "NUTS" ELSE "RandomWalkM"
       /\ InSeq("NUTS", sampler.kernel_kwargs["make_kernel_fn"])
            <=> \E i \in 1..Len(vs) : grad_support(vs[i])
       /\ InSeq("RandomWalkM", sampler.kernel_kwargs["make_kernel_fn"])
            <=> \E i \in 1..Len(vs) : ~grad_support(vs[i])
       /\ SumSeq(sampler.kernel_kwargs["li"]) = Len(vs)
C4_Witness ==
    /\ call.op = "assign"
    /\ call.sampler_methods = None
    /\ model.vars = <<"cont", "disc", "cont">>
    /\ sampler.kernel_kwargs["make_kernel_fn"] = <<"NUTS", "RandomWalkM">>

\* The explicit mapping pairs a gradient-requiring sampler with a variable
\* whose distribution lacks gradient support.
bad_pair(i) ==
    /\ i \in DOMAIN call.sampler_methods.value
    /\ ~grad_support(model.vars[i])
    /\ grad(call.sampler_methods.value[i])
first_mapped(i) ==
    /\ i \in DOMAIN call.sampler_methods.value
    /\ \A j \in DOMAIN call.sampler_methods.value : i <= j
none_wrongly_assigned ==
    err = NoError =>
        \A i \in 1..Len(result.locals.assigned) :
            grad(result.locals.assigned[i]) => grad_support(model.vars[i])

passes_gradient_check(i) ==
    grad(call.sampler_methods.value[i]) => grad_support(model.vars[i])

\* C6: an explicit mapping whose samplers are all NUTS or RandomWalkM and pass
\* the gradient-support check is accepted without error, each variable counted
\* under its sampler; a mapping that passes the check and names another
\* sampler class raises NotImplementedError.
C6_ExplicitNutsOrRwmAccepted ==
    (/\ call.op = "assign"
     /\ ~no_mapping(call.sampler_methods)
     /\ \A i \in DOMAIN call.sampler_methods.value : passes_gradient_check(i))
    => LET mv == call.sampler_methods.value IN
       IF \A i \in DOMAIN mv : mv[i] \in {"NUTS", "RandomWalkM"}
       THEN /\ err = NoError
            /\ \A i \in DOMAIN mv : result.locals.assigned[i] = mv[i]
       ELSE err = NotImplementedError

\* C7: sample_smc on a model with no likelihood term, or with no prior term,
\* raises before either log-probability closure is built and before the SMC
\* run starts.
C7_SmcNeedsLikelihoodAndPrior ==
    (/\ call.op = "sample_smc"
     /\ model.isModel
     /\ (DOMAIN model.observed = {} \/ model.vars = <<>>))
    => /\ err # NoError
       /\ both_given(call.state, call.observed) \/ err = ValueErrorNoLikelihoodOrPrior
       /\ ~Ran("logpfn_prior") /\ ~Ran("logpfn_likelihood") /\ ~Ran("run_smc")
       /\ result.mapped_samples = {}
C7_Witness ==
    /\ call.op = "sample_smc"
    /\ model.isModel
    /\ DOMAIN model.observed = {}
    /\ model.vars # <<>>
    /\ err = ValueErrorNoLikelihoodOrPrior

\* C8: constructing a sampler over a model with a keyword argument that none
\* of kernel, adaptation wrapper and chain runner accepts raises in the
\* constructor.
C8_UnsupportedKwargRaises ==
    (/\ call.op = "construct"
     /\ model.isModel
     /\ \E k \in DOMAIN call.kwargs : accept_count(call.cls, k) = 0)
    => err # NoError /\ sampler = NoSampler

\* What C9 expects of a returned sample call: burn_in + num_samples kernel
\* steps, and for every unobserved variable the num_samples draws taken at
\* the steps after the burn-in, each over num_chains chains.
fixed_length_run ==
    /\ result.trace.steps = call.burn_in + call.num_samples
    /\ DOMAIN result.trace.posterior = 1..Len(model.vars)
    /\ \A v \in DOMAIN result.trace.posterior :
         /\ result.trace.posterior[v].kept = [j \in 1..call.num_samples |-> call.burn_in + j]
         /\ result.trace.posterior[v].shape = <<call.num_samples, call.num_chains>>

original_observed ==
    IF call.state # None THEN call.state.value.observed_values
    ELSE IF call.observed # None THEN Update(model.observed, call.observed.value)
    ELSE model.observed

\* C10: the observed data in the trace a sample call returns is the original
\* observed data, values and shapes unchanged, for both batching strategies.
C10_ObservedDataUnchanged ==
    (call.op = "sample" /\ err = NoError)
    => result.trace.observed_data = original_observed

\* t[j - 1] of the code: the j-th slice of t along its leading axis.
index(t, j) ==
    LET size == Product(Tail(t.shape)) IN
    [val |-> SubSeq(t.val, (j - 1) * size + 1, j * size), shape |-> Tail(t.shape)]

\* C11: tile_init(init, num_repeats) returns a list as long as init; each of
\* its elements has the shape of the original under a new leading axis of
\* length num_repeats, and every slice along that axis is the original
\* element.
C11_TileInitAddsLeadingAxis ==
    call.op = "tile_init"
    => LET out == result.value IN
       /\ Len(out) = Len(call.init)
       /\ \A i \in 1..Len(call.init) :
            /\ out[i].shape = <<call.num_repeats>> \o call.init[i].shape
            /\ Len(out[i].val) = Product(out[i].shape)
            /\ \A j \in 1..call.num_repeats : index(out[i], j) = call.init[i]
C11_Witness ==
    /\ call.op = "tile_init"
    /\ Len(call.init) = 2
    /\ call.num_repeats = 2
    /\ call.init[1].shape = <<2, 2>>
    /\ call.init[2].shape = <<>>
    /\ result.value[1].val = <<1, 2, 3, 4, 1, 2, 3, 4>>
    /\ index(result.value[1], 2) = call.init[1]

\* Every key of defaults is in d, under the caller's value when the caller
\* passed that name and under the default otherwise.
merged(d, defaults) ==
    \A k \in DOMAIN defaults :
        /\ k \in DOMAIN d
        /\ d[k] = IF k \in DOMAIN call.kwargs THEN call.kwargs[k] ELSE defaults[k]
\* No entry of d under a name the caller passed holds another value.
user_values_kept(d) ==
    \A k \in DOMAIN d \cap DOMAIN call.kwargs : d[k] = call.kwargs[k]

\* C12: after a constructor returned, every class-level default kernel kwarg
\* is in the instance's kernel_kwargs and every default adaptation kwarg in
\* its adaptation_kwargs, with the caller's value when the caller passed that
\* name and the class default otherwise; no value the caller passed is
\* replaced by a default.
C12_DefaultsMergedUnderUserValues ==
    (call.op = "construct" /\ err = NoError)
    => /\ merged(sampler.kernel_kwargs, default_kernel_kwargs(call.cls))
       /\ merged(sampler.adaptation_kwargs, default_adapter_kwargs(call.cls))
       /\ user_values_kept(sampler.kernel_kwargs)
       /\ user_values_kept(sampler.adaptation_kwargs)
       /\ user_values_kept(sampler.chain_kwargs)
C12_Witness ==
    /\ call.op = "construct"
    /\ err = NoError
    /\ call.cls = "NUTS"
    /\ DOMAIN call.kwargs = {"step_size"}
    /\ sampler.kernel_kwargs["step_size"] = UserValue("step_size")
    /\ sampler.kernel_kwargs["step_size"] # default_kernel_kwargs("NUTS")["step_size"]
    /\ sampler.adaptation_kwargs["num_adaptation_steps"] = 100

\* The maximal contiguous runs of equal entries of q, in order: the entry and
\* the length of each, appended to acc.
RECURSIVE runs(_, _)
runs(q, acc) ==
    IF q = <<>> THEN acc
    ELSE IF acc # <<>> /\ acc[Len(acc)].cls = Head(q)
    THEN runs(Tail(q), [acc EXCEPT ![Len(acc)].len = @ + 1])
    ELSE runs(Tail(q), Append(acc, [cls |-> Head(q), len |-> 1]))

\* C13: when _assign_default_methods returns, make_kernel_fn, kernel_kwargs
\* and li have one entry for each maximal contiguous run of variables
\* assigned the same sampler type, in declaration order: entry k of
\* make_kernel_fn is the run's sampler and entry k of li is its length.
C13_ParallelGroups ==
    (call.op = "assign" /\ err = NoError)
    => LET rs == runs(result.locals.assigned, <<>>)
           kk == sampler.kernel_kwargs IN
       /\ Len(kk["make_kernel_fn"]) = Len(rs)
       /\ Len(kk["kernel_kwargs"]) = Len(rs)
       /\ Len(kk["li"]) = Len(rs)
       /\ \A k \in 1..Len(rs) :
            /\ kk["make_kernel_fn"][k] = rs[k].cls
            /\ kk["li"][k] = rs[k].len

\* The configuration errors: wrong model type, state and observed both
\* given, ambiguous kwargs, gradient sampler over a discrete or non-gradient
\* variable, unsupported compound sub-kernel, scale and state parts of
\* different lengths.
IsConfigurationError(e) ==
    e \in {TypeErrorNotModel, ValueErrorStateAndObserved, ValueErrorAmbiguity,
           ValueErrorDiscrete, ValueErrorNoGradient, NotImplementedError, ValueErrorScale}

\* C14: every configuration error is raised before any chain-sampling step
\* of the call has begun: not from inside sample_chain, not from inside a
\* kernel step.
C14_ConfigurationErrorsBeforeSampling ==
    IsConfigurationError(err)
    => /\ ~Ran("sample_chain") /\ ~Ran("one_step") /\ ~Ran("run_smc")
       /\ call.op = "sample" => result.trace.steps = 0

\* C15: whether a call of a proposal function raises, and how many parts it
\* returns, is what the first call of a function made from the scale given
\* to the factory does on the same number of state parts, whatever calls
\* came before.
C15_ProposalStateless ==
    call.op = "proposal_call"
    => LET first == fn(proposal_fn(proposal.factory, proposal.given), call.parts) IN
       /\ err = first.err
       /\ result.returned = first.returned

\* C16: a sample call leaves the dict passed as `observed` as it was: the
\* same keys, under each the same values in the same shape, with either
\* batching strategy.
C16_CallerObservedUnchanged ==
    (call.op = "sample" /\ call.observed # None)
    => result.dicts.caller_observed = call.observed
====
